---- MODULE Spec2Model ----
(***************************************************************************)
(* Model of src/server.js: a tablature catalogue over one SQLite store     *)
(* (tables tabs and ratings) served by four Express route handlers.  Each  *)
(* handler is a chain of callbacks; every SQL statement a handler issues   *)
(* executes atomically in the store, at any moment after it was issued,    *)
(* and its callback issues the next statement or sends the response.       *)
(*                                                                         *)
(* Representation.  Text is a sequence of one-character strings.  A JS     *)
(* number x is the integer 10*x (tenths), so that 2.5 is 25 and an         *)
(* integer is a multiple of 10.  A real quotient is a pair num/den.        *)
(***************************************************************************)
EXTENDS Integers, Sequences, FiniteSets, Bags, TLC


\* ---- initialTabs, src/server.js:49-65 ----

SeedTitle1 ==
    <<"N", "o", "t", "h", "i", "n", "g", " ", "E", "l", "s", "e", " ", "M", "a", "t",
      "t", "e", "r", "s">>

SeedArtist1 ==
    <<"M", "e", "t", "a", "l", "l", "i", "c", "a">>

SeedContent1 ==
    <<"e", "|", "-", "-", "-", "-", "-", "-", "-", "0", "-", "-", "-", "-", "-", "-",
      "-", "0", "-", "-", "-", "-", "-", "-", "-", "0", "-", "-", "-", "-", "-", "-",
      "-", "0", "-", "-", "-", "-", "-", "-", "-", "|", "\n", "B", "|", "-", "-", "-",
      "-", "-", "1", "-", "-", "-", "-", "-", "1", "-", "-", "-", "-", "-", "1", "-",
      "-", "-", "-", "-", "1", "-", "-", "-", "-", "-", "1", "-", "-", "-", "-", "-",
      "1", "-", "-", "-", "|", "\n", "G", "|", "-", "-", "-", "0", "-", "-", "-", "-",
      "-", "0", "-", "-", "-", "-", "-", "0", "-", "-", "-", "-", "-", "0", "-", "-",
      "-", "-", "-", "0", "-", "-", "-", "-", "-", "0", "-", "-", "-", "-", "-", "|",
      "\n", "D", "|", "-", "-", "-", "-", "-", "-", "-", "-", "-", "-", "-", "-", "-",
      "-", "-", "-", "-", "-", "-", "-", "-", "-", "-", "-", "-", "-", "-", "-", "-",
      "-", "-", "-", "-", "-", "-", "-", "-", "-", "-", "|", "\n", "A", "|", "-", "-",
      "-", "-", "-", "-", "-", "-", "-", "-", "-", "-", "-", "-", "-", "-", "-", "-",
      "-", "-", "-", "-", "-", "-", "-", "-", "-", "-", "-", "-", "-", "-", "-", "-",
      "-", "-", "-", "-", "-", "|", "\n", "E", "|", "-", "3", "-", "-", "-", "-", "-",
      "3", "-", "-", "-", "-", "-", "3", "-", "-", "-", "-", "-", "3", "-", "-", "-",
      "-", "-", "3", "-", "-", "-", "-", "-", "3", "-", "-", "-", "-", "-", "-", "-",
      "|">>

SeedTitle2 ==
    <<"W", "i", "s", "h", " ", "Y", "o", "u", " ", "W", "e", "r", "e", " ", "H", "e",
      "r", "e">>

SeedArtist2 ==
    <<"P", "i", "n", "k", " ", "F", "l", "o", "y", "d">>

SeedContent2 ==
    <<"e", "|", "-", "-", "-", "-", "-", "-", "-", "0", "-", "-", "-", "-", "-", "-",
      "-", "0", "-", "-", "-", "-", "-", "-", "-", "0", "-", "-", "-", "-", "-", "-",
      "-", "0", "-", "-", "-", "-", "-", "-", "-", "|", "\n", "B", "|", "-", "-", "-",
      "-", "-", "0", "-", "-", "-", "-", "-", "0", "-", "-", "-", "-", "-", "0", "-",
      "-", "-", "-", "-", "0", "-", "-", "-", "-", "-", "0", "-", "-", "-", "-", "-",
      "0", "-", "-", "-", "|", "\n", "G", "|", "-", "-", "-", "1", "-", "-", "-", "-",
      "-", "1", "-", "-", "-", "-", "-", "1", "-", "-", "-", "-", "-", "1", "-", "-",
      "-", "-", "-", "1", "-", "-", "-", "-", "-", "1", "-", "-", "-", "-", "-", "|",
      "\n", "D", "|", "-", "2", "-", "-", "-", "-", "-", "2", "-", "-", "-", "-", "-",
      "2", "-", "-", "-", "-", "-", "2", "-", "-", "-", "-", "-", "2", "-", "-", "-",
      "-", "-", "2", "-", "-", "-", "-", "-", "-", "-", "|", "\n", "A", "|", "-", "-",
      "-", "-", "-", "-", "-", "-", "-", "-", "-", "-", "-", "-", "-", "-", "-", "-",
      "-", "-", "-", "-", "-", "-", "-", "-", "-", "-", "-", "-", "-", "-", "-", "-",
      "-", "-", "-", "-", "-", "|", "\n", "E", "|", "-", "-", "-", "-", "-", "-", "-",
      "-", "-", "-", "-", "-", "-", "-", "-", "-", "-", "-", "-", "-", "-", "-", "-",
      "-", "-", "-", "-", "-", "-", "-", "-", "-", "-", "-", "-", "-", "-", "-", "-",
      "|">>

SeedTitle3 ==
    <<"S", "t", "a", "i", "r", "w", "a", "y", " ", "t", "o", " ", "H", "e", "a", "v",
      "e", "n">>

SeedArtist3 ==
    <<"L", "e", "d", " ", "Z", "e", "p", "p", "e", "l", "i", "n">>

SeedContent3 ==
    <<"e", "|", "-", "-", "-", "-", "-", "-", "-", "5", "-", "-", "-", "-", "-", "-",
      "-", "7", "-", "-", "-", "-", "-", "-", "-", "8", "-", "-", "-", "-", "-", "-",
      "-", "7", "-", "-", "-", "-", "-", "-", "-", "|", "\n", "B", "|", "-", "-", "-",
      "-", "-", "5", "-", "-", "-", "-", "-", "5", "-", "-", "-", "-", "-", "5", "-",
      "-", "-", "-", "-", "5", "-", "-", "-", "-", "-", "5", "-", "-", "-", "-", "-",
      "5", "-", "-", "-", "|", "\n", "G", "|", "-", "-", "-", "5", "-", "-", "-", "-",
      "-", "5", "-", "-", "-", "-", "-", "5", "-", "-", "-", "-", "-", "5", "-", "-",
      "-", "-", "-", "5", "-", "-", "-", "-", "-", "5", "-", "-", "-", "-", "-", "|",
      "\n", "D", "|", "-", "-", "-", "-", "-", "-", "-", "-", "-", "-", "-", "-", "-",
      "-", "-", "-", "-", "-", "-", "-", "-", "-", "-", "-", "-", "-", "-", "-", "-",
      "-", "-", "-", "-", "-", "-", "-", "-", "-", "-", "|", "\n", "A", "|", "-", "-",
      "-", "-", "-", "-", "-", "-", "-", "-", "-", "-", "-", "-", "-", "-", "-", "-",
      "-", "-", "-", "-", "-", "-", "-", "-", "-", "-", "-", "-", "-", "-", "-", "-",
      "-", "-", "-", "-", "-", "|", "\n", "E", "|", "-", "-", "-", "-", "-", "-", "-",
      "-", "-", "-", "-", "-", "-", "-", "-", "-", "-", "-", "-", "-", "-", "-", "-",
      "-", "-", "-", "-", "-", "-", "-", "-", "-", "-", "-", "-", "-", "-", "-", "-",
      "|">>

initialTabs ==
    << [title |-> SeedTitle1, artist |-> SeedArtist1, content |-> SeedContent1],
       [title |-> SeedTitle2, artist |-> SeedArtist2, content |-> SeedContent2],
       [title |-> SeedTitle3, artist |-> SeedArtist3, content |-> SeedContent3] >>

\* ---- bounds of the model ----
MaxInFlight == 2
MaxTabs == 5
MaxRatings == 3
MaxClock == 1

\* ---- JavaScript values of a request (params, query, body) ----
undefined == [kind |-> "undefined", text |-> <<>>, num |-> 0]
JsString(s) == [kind |-> "string", text |-> s, num |-> 0]
JsNumber(n) == [kind |-> "number", text |-> <<>>, num |-> n]

\* JS truthiness, as used by !x and if (x)
Truthy(v) ==
    CASE v.kind = "string" -> v.text # <<>>
      [] v.kind = "number" -> v.num # 0
      [] OTHER -> FALSE

\* ---- SQLite values ----
NULL == [isNull |-> TRUE, text |-> <<>>]
Text(s) == [isNull |-> FALSE, text |-> s]
NullNumber == [isNull |-> TRUE, num |-> 0, den |-> 1]
Number(n, d) == [isNull |-> FALSE, num |-> n, den |-> d]

Digits == <<"0", "1", "2", "3", "4", "5", "6", "7", "8", "9">>
IsDigit(c) == \E i \in 1..10 : Digits[i] = c
DigitValue(c) == (CHOOSE i \in 1..10 : Digits[i] = c) - 1

RECURSIVE DecimalValue(_)
DecimalValue(s) ==
    IF s = <<>> THEN 0
    ELSE 10 * DecimalValue(SubSeq(s, 1, Len(s) - 1)) + DigitValue(s[Len(s)])

\* INTEGER affinity applied to a bound TEXT parameter: a well-formed integer
\* literal becomes that integer, any other text stays text (never equal to
\* an integer column value).
IntegerAffinity(s) ==
    IF s # <<>> /\ \A i \in 1..Len(s) : IsDigit(s[i])
    THEN [isInt |-> TRUE, int |-> DecimalValue(s)]
    ELSE [isInt |-> FALSE, int |-> 0]

UpperCase == <<"A", "B", "C", "D", "E", "F", "G", "H", "I", "J", "K", "L", "M",
               "N", "O", "P", "Q", "R", "S", "T", "U", "V", "W", "X", "Y", "Z">>
LowerCase == <<"a", "b", "c", "d", "e", "f", "g", "h", "i", "j", "k", "l", "m",
               "n", "o", "p", "q", "r", "s", "t", "u", "v", "w", "x", "y", "z">>
Fold(c) ==
    IF \E i \in 1..26 : UpperCase[i] = c
    THEN LowerCase[CHOOSE i \in 1..26 : UpperCase[i] = c]
    ELSE c

\* SQLite's LIKE: % matches any run of characters, _ any one character,
\* ASCII letters match regardless of case.
RECURSIVE Like(_, _)
Like(str, pat) ==
    IF pat = <<>> THEN str = <<>>
    ELSE IF Head(pat) = "%"
         THEN Like(str, Tail(pat)) \/ (str # <<>> /\ Like(Tail(str), pat))
         ELSE /\ str # <<>>
              /\ (Head(pat) = "_" \/ Fold(Head(pat)) = Fold(Head(str)))
              /\ Like(Tail(str), Tail(pat))

VARIABLES
    tabs,             \* table tabs: rows in rowid order
    ratings,          \* table ratings: rows in rowid order
    sqlite_sequence,  \* AUTOINCREMENT counters of the two tables
    now,              \* CURRENT_TIMESTAMP, in seconds
    req,              \* the requests being served: a bag of request records
    sent              \* the request answered by the latest step, with its response

vars == <<tabs, ratings, sqlite_sequence, now, req, sent>>

\* ---- requests ----
NoArgs ==
    [id |-> <<>>, search |-> undefined, title |-> undefined,
     artist |-> undefined, content |-> undefined, rating |-> undefined,
     user_ip |-> undefined]
NoRes ==
    [status |-> 0, error |-> "", rows |-> <<>>, id |-> 0,
     new_rating |-> 0, votes |-> 0]
\* seen: the number of rows of table ratings when the request arrived;
\* lastID: this.lastID of the request's INSERT (0: no row inserted)
NoReq ==
    [op |-> "none", pc |-> "idle", args |-> NoArgs, res |-> NoRes,
     seen |-> 0, lastID |-> 0]

Free == BagCardinality(req) < MaxInFlight
InFlight(op) ==
    LET rs == {r \in BagToSet(req) : r.op = op}
    IN  BagCardinality([r \in rs |-> req[r]])

Arrive(op, pc, args) ==
    [op |-> op, pc |-> pc, args |-> args, res |-> NoRes,
     seen |-> Len(ratings), lastID |-> 0]

\* an error branch that returns without sending the response
ErrorNotSent(r, code, message) == [r EXCEPT !.pc = "returned"]
\* res.status(code).json({ error: message })
Error(r, code, message) ==
    [r EXCEPT !.pc = "done", !.res = [NoRes EXCEPT !.status = code, !.error = message]]
\* res.json(body)
Json(r, body) == [r EXCEPT !.pc = "done", !.res = [body EXCEPT !.status = 200]]

\* a request arrives and its handler leaves it as r: answered, or waiting
\* for the callback of the statement it issued
Accept(r) ==
    /\ Free
    /\ IF r.pc = "done"
       THEN req' = req /\ sent' = r
       ELSE req' = req (+) SetToBag({r}) /\ sent' = NoReq

\* the callback of request r0 leaves it as r
Step(r0, r) ==
    IF r.pc = "done"
    THEN req' = req (-) SetToBag({r0}) /\ sent' = r
    ELSE req' = (req (-) SetToBag({r0})) (+) SetToBag({r}) /\ sent' = NoReq

\* ---- initDatabase ----
Init ==
    /\ tabs = [i \in 1..Len(initialTabs) |->
                 [id |-> i, title |-> initialTabs[i].title,
                  artist |-> initialTabs[i].artist,
                  content |-> initialTabs[i].content,
                  created_at |-> 0, updated_at |-> 0]]
    /\ ratings = <<>>
    /\ sqlite_sequence = [tabs |-> Len(initialTabs), ratings |-> 0]
    /\ now = 0
    /\ req = EmptyBag
    /\ sent = NoReq

\* ---- inputs of the requests ----
TabIdParams == {<<"1">>, <<"4">>, <<"5">>, <<"9">>}
SearchTerms == {undefined, JsString(<<>>), JsString(<<"h", "e", "a", "v", "e", "n">>)}
TextInputs ==
    {undefined, JsString(<<>>), JsString(<<"T">>), JsString(<<"U">>), JsString(<<"A">>),
     JsString(<<"e">>)}
RatingInputs ==
    {undefined, JsNumber(0), JsNumber(10), JsNumber(20), JsNumber(25), JsNumber(30),
     JsNumber(50), JsNumber(60)}
UserIpInputs == {undefined, JsString(<<>>), JsString(<<"i", "p", "_", "a">>), JsString(<<"i", "p", "_", "b">>)}

\* the error messages of the handlers, in English (the source has them in
\* Russian), and err.message of the store's errors
AllFieldsRequired == "All fields are required"
RatingOutOfRange == "Rating must be between 1 and 5"
TabNotFound == "Tab not found"
AlreadyRated == "You have already rated this tab"
IOError == "SQLITE_IOERR: disk I/O error"
UniqueError == "SQLITE_CONSTRAINT: UNIQUE constraint failed: ratings.tab_id, ratings.user_ip"
CheckError == "SQLITE_CONSTRAINT: CHECK constraint failed"
NotNullError == "SQLITE_CONSTRAINT: NOT NULL constraint failed"

\* ---- the queries ----
\* the query without its WHERE clause
SelectAnyTab(id) == tabs

\* SELECT id FROM tabs WHERE id = ?  (also WHERE t.id = ?)
SelectTab(id) ==
    LET key == IntegerAffinity(id)
    IN  SelectSeq(tabs, LAMBDA t : key.isInt /\ t.id = key.int)

\* the query without its result: no rating is ever found
SelectNoExistingRating(id, user_ip) == <<>>

\* SELECT id FROM ratings WHERE tab_id = ? AND user_ip = ?
SelectExistingRating(id, user_ip) ==
    LET key == IntegerAffinity(id)
    IN  SelectSeq(ratings, LAMBDA x :
            /\ key.isInt /\ x.tab_id = key.int
            /\ ~x.user_ip.isNull /\ x.user_ip.text = user_ip.text)

\* the re-read taken as it would be before the latest insert was stored
SelectRatingsStale(id) ==
    LET key == IntegerAffinity(id)
    IN  SelectSeq(SubSeq(ratings, 1, Len(ratings) - 1),
                  LAMBDA x : key.isInt /\ x.tab_id = key.int)

\* SELECT ... FROM ratings WHERE tab_id = ?
SelectRatings(id) ==
    LET key == IntegerAffinity(id)
    IN  SelectSeq(ratings, LAMBDA x : key.isInt /\ x.tab_id = key.int)

RECURSIVE SUM(_)
SUM(rs) == IF rs = <<>> THEN 0 ELSE Head(rs).rating + SUM(Tail(rs))
COUNT(rs) == Len(rs)
AVG(rs) == IF rs = <<>> THEN NullNumber ELSE Number(SUM(rs), 10 * COUNT(rs))
\* the aggregate without COALESCE
NotCoalesced(x, y) == x

COALESCE(x, y) == IF x.isNull THEN y ELSE x

\* the aggregate of a tab taken from the ratings without the latest one
WithStaleAggregate(t) ==
    LET rs == SelectSeq(SubSeq(ratings, 1, Len(ratings) - 1), LAMBDA r : r.tab_id = t.id)
    IN  [id |-> t.id, title |-> t.title, artist |-> t.artist, content |-> t.content,
         created_at |-> t.created_at, updated_at |-> t.updated_at,
         rating |-> COALESCE(AVG(rs), Number(0, 1)), votes |-> COUNT(rs)]

\* SELECT t.*, COALESCE(AVG(r.rating), 0) as rating, COUNT(r.rating) as votes
\* FROM tabs t LEFT JOIN ratings r ON t.id = r.tab_id ... GROUP BY t.id
WithAggregate(t) ==
    LET rs == SelectSeq(ratings, LAMBDA r : r.tab_id = t.id)
    IN  [id |-> t.id, title |-> t.title, artist |-> t.artist, content |-> t.content,
         created_at |-> t.created_at, updated_at |-> t.updated_at,
         rating |-> COALESCE(AVG(rs), Number(0, 1)), votes |-> COUNT(rs)]

\* WHERE t.title LIKE ? OR t.artist LIKE ?, with params `%${search}%`
Where(t, search) ==
    Truthy(search) =>
        LET param == <<"%">> \o search.text \o <<"%">>
        IN  Like(t.title, param) \/ Like(t.artist, param)

\* ORDER BY t.created_at DESC: every order of the rows that is descending in
\* created_at (the order among equal timestamps is not determined)
OrderByCreatedAtDesc(rows) ==
    LET n == Len(rows)
        perms == {f \in [1..n -> 1..n] :
                     /\ \A i, j \in 1..n : i # j => f[i] # f[j]
                     /\ \A i, j \in 1..n :
                            i < j => rows[f[i]].created_at >= rows[f[j]].created_at}
    IN  {[i \in 1..n |-> rows[f[i]]] : f \in perms}

\* number.toFixed(1), as tenths: the nearest tenth, the larger one on a tie
\* (a tie is a mean ending in .25 or .75 while fewer than 20 ratings are
\* averaged, which a double holds exactly)
toFixed(x) == (2 * 10 * x.num + x.den) \div (2 * x.den)

\* ---- GET /api/tabs ----
GetTabs(search) ==
    /\ Accept(Arrive("list", "all", [NoArgs EXCEPT !.search = search]))
    /\ UNCHANGED <<tabs, ratings, sqlite_sequence, now>>

GetTabsAll(r0) ==
    /\ r0.pc = "all"
    /\ \E err \in BOOLEAN :
         IF err
         THEN Step(r0, Error(r0, 500, IOError))
         ELSE LET sel == SelectSeq(tabs, LAMBDA t : Where(t, r0.args.search))
                  grouped == [i \in 1..Len(sel) |-> WithAggregate(sel[i])]
              IN  \E rows \in OrderByCreatedAtDesc(grouped) :
                     Step(r0, Json(r0, [NoRes EXCEPT !.rows = rows]))
    /\ UNCHANGED <<tabs, ratings, sqlite_sequence, now>>

\* ---- GET /api/tabs/:id ----
GetTab(id) ==
    /\ Accept(Arrive("get", "get", [NoArgs EXCEPT !.id = id]))
    /\ UNCHANGED <<tabs, ratings, sqlite_sequence, now>>

GetTabGet(r0) ==
    /\ r0.pc = "get"
    /\ \E err \in BOOLEAN :
         LET row == SelectTab(r0.args.id)
         IN  Step(r0, IF err THEN Error(r0, 500, IOError)
                     ELSE IF row = <<>> THEN Error(r0, 404, TabNotFound)
                     ELSE Json(r0, [NoRes EXCEPT !.rows = <<WithAggregate(row[1])>>]))
    /\ UNCHANGED <<tabs, ratings, sqlite_sequence, now>>

\* ---- POST /api/tabs ----
\* the check without its last operand
MissingTitleOrArtist(title, artist, content) == ~Truthy(title) \/ ~Truthy(artist)

\* !title || !artist || !content
MissingField(title, artist, content) == ~Truthy(title) \/ ~Truthy(artist) \/ ~Truthy(content)

\* a bound parameter as stored in a TEXT column
Bind(v) == IF v.kind = "undefined" THEN NULL ELSE Text(v.text)

\* the row with two parameters bound in the wrong order
NewTabSwapped(id, title, artist, content) ==
    [id |-> id, title |-> Bind(artist), artist |-> Bind(title), content |-> Bind(content),
     created_at |-> now, updated_at |-> now]

\* the row INSERT INTO tabs (title, artist, content) VALUES (?, ?, ?) makes
NewTab(id, title, artist, content) ==
    [id |-> id, title |-> Bind(title), artist |-> Bind(artist), content |-> Bind(content),
     created_at |-> now, updated_at |-> now]
NotNullTab(row) == ~row.title.isNull /\ ~row.artist.isNull /\ ~row.content.isNull

PostTabs(title, artist, content) ==
    /\ Len(tabs) + InFlight("create") < MaxTabs
    /\ LET r == Arrive("create", "run",
                       [NoArgs EXCEPT !.title = title, !.artist = artist, !.content = content])
       IN  Accept(IF MissingField(title, artist, content)
                   THEN Error(r, 400, AllFieldsRequired)
                   ELSE r)
    /\ UNCHANGED <<tabs, ratings, sqlite_sequence, now>>

PostTabsRun(r0) ==
    /\ r0.pc = "run"
    /\ \E err \in BOOLEAN :
         LET lastID == sqlite_sequence.tabs + 1
             row == NewTab(lastID, r0.args.title, r0.args.artist, r0.args.content)
         IN  IF err \/ ~NotNullTab(row)
             THEN /\ Step(r0, Error(r0, 500, IF err THEN IOError ELSE NotNullError))
                  /\ UNCHANGED <<tabs, sqlite_sequence>>
             ELSE /\ tabs' = Append(tabs, [row EXCEPT !.title = @.text, !.artist = @.text,
                                                     !.content = @.text])
                  /\ sqlite_sequence' = [sqlite_sequence EXCEPT !.tabs = lastID]
                  /\ Step(r0, Json([r0 EXCEPT !.lastID = lastID], [NoRes EXCEPT !.id = lastID]))
    /\ UNCHANGED <<ratings, now>>

\* ---- POST /api/tabs/:id/rate ----
\* the check with its upper limit off by one
InvalidRatingAbove6(rating) == ~Truthy(rating) \/ rating.num < 1 * 10 \/ rating.num > 6 * 10

\* !rating || rating < 1 || rating > 5
InvalidRating(rating) == ~Truthy(rating) \/ rating.num < 1 * 10 \/ rating.num > 5 * 10

PostRate(id, rating, user_ip) ==
    /\ Len(ratings) + InFlight("rate") < MaxRatings
    /\ LET r == Arrive("rate", "getTab",
                       [NoArgs EXCEPT !.id = id, !.rating = rating, !.user_ip = user_ip])
       IN  Accept(IF InvalidRating(rating)
                   THEN Error(r, 400, RatingOutOfRange)
                   ELSE r)
    /\ UNCHANGED <<tabs, ratings, sqlite_sequence, now>>

\* db.get("SELECT id FROM tabs WHERE id = ?") and its callback
PostRateGetTab(r0) ==
    /\ r0.pc = "getTab"
    /\ \E err \in BOOLEAN :
         LET tab == SelectTab(r0.args.id)
         IN  Step(r0, IF err THEN Error(r0, 500, IOError)
                     ELSE IF tab = <<>> THEN Error(r0, 404, TabNotFound)
                     ELSE IF Truthy(r0.args.user_ip)
                          THEN [r0 EXCEPT !.pc = "getExisting"]
                          ELSE [r0 EXCEPT !.pc = "insertRating"])
    /\ UNCHANGED <<tabs, ratings, sqlite_sequence, now>>

\* db.get("SELECT id FROM ratings WHERE tab_id = ? AND user_ip = ?") and its callback
PostRateGetExisting(r0) ==
    /\ r0.pc = "getExisting"
    /\ \E err \in BOOLEAN :
         LET existingRating == SelectExistingRating(r0.args.id, r0.args.user_ip)
         IN  Step(r0, IF err THEN Error(r0, 500, IOError)
                     ELSE IF existingRating # <<>> THEN Error(r0, 400, AlreadyRated)
                     ELSE [r0 EXCEPT !.pc = "insertRating"])
    /\ UNCHANGED <<tabs, ratings, sqlite_sequence, now>>

\* the constraints of table ratings on a new row
CheckRating(row) == row.rating >= 1 * 10 /\ row.rating <= 5 * 10
\* the table without UNIQUE(tab_id, user_ip)
NoUniqueTabIdUserIp(row) == TRUE
\* UNIQUE(tab_id, user_ip) with NULL keys compared as equal
UniqueTabIdUserIpNullsEqual(row) ==
    \A i \in 1..Len(ratings) :
        ~(ratings[i].tab_id = row.tab_id /\ ratings[i].user_ip = row.user_ip)

UniqueTabIdUserIp(row) ==
    \A i \in 1..Len(ratings) :
        ~(/\ ~row.user_ip.isNull
          /\ ratings[i].tab_id = row.tab_id
          /\ ratings[i].user_ip = row.user_ip)

\* the statement as INSERT OR REPLACE: a row of the same tab and key is
\* removed to make room for the new one
insertRatingOrReplace(r0) ==
    /\ r0.pc = "insertRating"
    /\ \E err \in BOOLEAN :
         LET row == [id |-> sqlite_sequence.ratings + 1,
                     tab_id |-> IntegerAffinity(r0.args.id).int,
                     rating |-> r0.args.rating.num,
                     user_ip |-> IF Truthy(r0.args.user_ip)
                                 THEN Text(r0.args.user_ip.text) ELSE NULL,
                     created_at |-> now]
             kept == SelectSeq(ratings, LAMBDA x :
                         ~(~row.user_ip.isNull /\ x.tab_id = row.tab_id
                           /\ x.user_ip = row.user_ip))
         IN  IF err \/ ~CheckRating(row)
             THEN /\ Step(r0, Error(r0, 500, IF err THEN IOError ELSE CheckError))
                  /\ UNCHANGED <<ratings, sqlite_sequence>>
             ELSE /\ ratings' = Append(kept, row)
                  /\ sqlite_sequence' = [sqlite_sequence EXCEPT !.ratings = row.id]
                  /\ Step(r0, [r0 EXCEPT !.pc = "getNew", !.lastID = row.id])
    /\ UNCHANGED <<tabs, now>>

\* db.run("INSERT INTO ratings (tab_id, rating, user_ip) VALUES (?, ?, ?)") and its callback
insertRating(r0) ==
    /\ r0.pc = "insertRating"
    /\ \E err \in BOOLEAN :
         LET row == [id |-> sqlite_sequence.ratings + 1,
                     tab_id |-> IntegerAffinity(r0.args.id).int,
                     rating |-> r0.args.rating.num,
                     user_ip |-> IF Truthy(r0.args.user_ip)
                                 THEN Text(r0.args.user_ip.text) ELSE NULL,
                     created_at |-> now]
         IN  IF err \/ ~CheckRating(row) \/ ~UniqueTabIdUserIp(row)
             THEN /\ Step(r0, Error(r0, 500,
                                   IF err THEN IOError
                                   ELSE IF ~CheckRating(row) THEN CheckError
                                   ELSE UniqueError))
                  /\ UNCHANGED <<ratings, sqlite_sequence>>
             ELSE /\ ratings' = Append(ratings, row)
                  /\ sqlite_sequence' = [sqlite_sequence EXCEPT !.ratings = row.id]
                  /\ Step(r0, [r0 EXCEPT !.pc = "getNew", !.lastID = row.id])
    /\ UNCHANGED <<tabs, now>>

\* db.get("SELECT COALESCE(AVG(rating), 0) as new_rating, COUNT(rating) as votes
\*         FROM ratings WHERE tab_id = ?") and its callback
insertRatingGetNew(r0) ==
    /\ r0.pc = "getNew"
    /\ \E err \in BOOLEAN :
         LET rs == SelectRatings(r0.args.id)
             result == [new_rating |-> COALESCE(AVG(rs), Number(0, 1)), votes |-> COUNT(rs)]
         IN  Step(r0, IF err THEN Error(r0, 500, IOError)
                     ELSE Json(r0, [NoRes EXCEPT !.new_rating = toFixed(result.new_rating),
                                                     !.votes = result.votes]))
    /\ UNCHANGED <<tabs, ratings, sqlite_sequence, now>>

\* CURRENT_TIMESTAMP advances by a second
Tick ==
    /\ now < MaxClock
    /\ now' = now + 1
    /\ sent' = NoReq
    /\ UNCHANGED <<tabs, ratings, sqlite_sequence, req>>

\* The handlers over given sets of inputs.
Tabs(ids, terms, texts) ==
    \/ \E search \in terms : GetTabs(search)
    \/ \E r0 \in BagToSet(req) : GetTabsAll(r0)
    \/ \E id \in ids : GetTab(id)
    \/ \E r0 \in BagToSet(req) : GetTabGet(r0)
    \/ \E title, artist, content \in texts : PostTabs(title, artist, content)
    \/ \E r0 \in BagToSet(req) : PostTabsRun(r0)

Rate(ids, values, keys) ==
    \/ \E id \in ids, rating \in values, user_ip \in keys :
           PostRate(id, rating, user_ip)
    \/ \E r0 \in BagToSet(req) : PostRateGetTab(r0)
    \/ \E r0 \in BagToSet(req) : PostRateGetExisting(r0)
    \/ \E r0 \in BagToSet(req) : insertRating(r0)
    \/ \E r0 \in BagToSet(req) : insertRatingGetNew(r0)

Next ==
    \/ Tabs(TabIdParams, SearchTerms, TextInputs)
    \/ Rate(TabIdParams, RatingInputs, UserIpInputs)
    \/ Tick

Spec == Init /\ [][Next]_vars

\* ---- the model over smaller sets of inputs ----
\* Every behaviour of these specifications is a behaviour of Spec: each takes
\* some of the handlers of Next, over subsets of the inputs of Next.
ip_a == JsString(<<"i", "p", "_", "a">>)
ip_b == JsString(<<"i", "p", "_", "b">>)

\* Keyed ratings of one tab racing with each other and with tab creation.
NextRace ==
    \/ PostTabs(JsString(<<"T">>), JsString(<<"T">>), JsString(<<"T">>))
    \/ \E r0 \in BagToSet(req) : PostTabsRun(r0)
    \/ Rate({<<"1">>}, {JsNumber(30), JsNumber(50)}, {ip_a, ip_b})

SpecRace == Init /\ [][NextRace]_vars

\* Ratings of every kind of value, of a tab that exists and of one that does not.
NextValidation ==
    Rate({<<"1">>, <<"9">>},
         {undefined, JsNumber(0), JsNumber(25), JsNumber(50), JsNumber(60)},
         {undefined, ip_a})

SpecValidation == Init /\ [][NextValidation]_vars

\* Anonymous ratings of one tab and the reads of its aggregate.
NextAggregate ==
    \/ \E rating \in {JsNumber(10), JsNumber(20)} : PostRate(<<"1">>, rating, undefined)
    \/ \E r0 \in BagToSet(req) : PostRateGetTab(r0)
    \/ \E r0 \in BagToSet(req) : insertRating(r0)
    \/ \E r0 \in BagToSet(req) : insertRatingGetNew(r0)
    \/ GetTab(<<"1">>)
    \/ \E r0 \in BagToSet(req) : GetTabGet(r0)
    \/ GetTabs(undefined)
    \/ \E r0 \in BagToSet(req) : GetTabsAll(r0)

SpecAggregate == Init /\ [][NextAggregate]_vars

\* Creating and reading tabs as time passes.
NextTabs ==
    \/ \E id \in {<<"1">>, <<"4">>, <<"5">>} : GetTab(id)
    \/ \E r0 \in BagToSet(req) : GetTabGet(r0)
    \/ \E title \in {undefined, JsString(<<>>), JsString(<<"T">>), JsString(<<"U">>)},
          artist \in {undefined, JsString(<<>>), JsString(<<"A">>)},
          content \in {undefined, JsString(<<>>), JsString(<<"e">>)} :
           PostTabs(title, artist, content)
    \/ \E r0 \in BagToSet(req) : PostTabsRun(r0)
    \/ Tick

SpecTabs == Init /\ [][NextTabs]_vars

\* Listing and searching the tabs while tabs are created and time passes.
NextList ==
    \/ \E search \in {undefined, JsString(<<"_">>), JsString(<<"H", "E", "A", "V", "E", "N">>)} :
           GetTabs(search)
    \/ \E r0 \in BagToSet(req) : GetTabsAll(r0)
    \/ PostTabs(JsString(<<"T">>), JsString(<<"A">>), JsString(<<"e">>))
    \/ \E r0 \in BagToSet(req) : PostTabsRun(r0)
    \/ Tick

SpecList == Init /\ [][NextList]_vars

\* Ratings without a client key, and with one, of the same tab.
NextAnonymous ==
    Rate({<<"1">>}, {JsNumber(50)}, {undefined, JsString(<<>>), ip_a})

SpecAnonymous == Init /\ [][NextAnonymous]_vars

\* Every route once: reads, a creation and ratings, valid and rejected.
NextStore ==
    \/ GetTabs(JsString(<<"h", "e", "a", "v", "e", "n">>))
    \/ \E r0 \in BagToSet(req) : GetTabsAll(r0)
    \/ \E id \in {<<"1">>, <<"9">>} : GetTab(id)
    \/ \E r0 \in BagToSet(req) : GetTabGet(r0)
    \/ \E title \in {undefined, JsString(<<"T">>)} :
           PostTabs(title, JsString(<<"A">>), JsString(<<"e">>))
    \/ \E r0 \in BagToSet(req) : PostTabsRun(r0)
    \/ Rate({<<"1">>, <<"9">>}, {JsNumber(0), JsNumber(50)}, {ip_a})

SpecStore == Init /\ [][NextStore]_vars

\* Requests that have arrived: the store as initDatabase leaves it and up to
\* MaxInFlight requests (reading one tab, creating a tab, rating a tab) whose
\* handlers have issued their first statement.  No
\* further request arrives that issues a statement (requests rejected by
\* validation keep arriving), and every callback of the store eventually fires.
Arrived ==
    {Arrive("get", "get", [NoArgs EXCEPT !.id = <<"1">>]),
     Arrive("get", "get", [NoArgs EXCEPT !.id = <<"9">>]),
     Arrive("create", "run", [NoArgs EXCEPT !.title = JsString(<<"T">>),
                                            !.artist = JsString(<<"A">>),
                                            !.content = JsString(<<"e">>)]),
     Arrive("rate", "getTab", [NoArgs EXCEPT !.id = <<"1">>, !.rating = JsNumber(50),
                                             !.user_ip = ip_a]),
     Arrive("rate", "getTab", [NoArgs EXCEPT !.id = <<"1">>, !.rating = JsNumber(50)]),
     Arrive("rate", "getTab", [NoArgs EXCEPT !.id = <<"9">>, !.rating = JsNumber(50)])}

BagOf(s) == [r \in {s[i] : i \in DOMAIN s} |-> Cardinality({i \in DOMAIN s : s[i] = r})]

InitArrived ==
    /\ tabs = [i \in 1..Len(initialTabs) |->
                 [id |-> i, title |-> initialTabs[i].title,
                  artist |-> initialTabs[i].artist,
                  content |-> initialTabs[i].content,
                  created_at |-> 0, updated_at |-> 0]]
    /\ ratings = <<>>
    /\ sqlite_sequence = [tabs |-> Len(initialTabs), ratings |-> 0]
    /\ now = 0
    /\ \E n \in 0..MaxInFlight : \E s \in [1..n -> Arrived] : req = BagOf(s)
    /\ sent = NoReq

\* the callback of a statement of a request in flight (of the routes that
\* read one tab, create a tab and rate a tab)
Callback ==
    \/ \E r0 \in BagToSet(req) : GetTabGet(r0)
    \/ \E r0 \in BagToSet(req) : PostTabsRun(r0)
    \/ \E r0 \in BagToSet(req) : PostRateGetTab(r0)
    \/ \E r0 \in BagToSet(req) : PostRateGetExisting(r0)
    \/ \E r0 \in BagToSet(req) : insertRating(r0)
    \/ \E r0 \in BagToSet(req) : insertRatingGetNew(r0)

NextFair ==
    \/ PostTabs(undefined, JsString(<<"A">>), JsString(<<"e">>))
    \/ PostRate(<<"1">>, JsNumber(0), undefined)
    \/ Callback

\* while a statement is pending, the store eventually runs one and calls back
SpecFair == InitArrived /\ [][NextFair]_vars /\ WF_vars(Callback)

\* ---- the claims ----
\* the request answered by the latest step is a rating of a (tab, key) pair
RatedPair == sent.op = "rate" /\ sent.args.user_ip.kind = "string" /\ sent.args.user_ip.text # <<>>
\* its rating is an integer from 1 to 5 and its tab exists
RatedValid ==
    /\ sent.op = "rate"
    /\ sent.args.rating.kind = "number" /\ sent.args.rating.num \in {10, 20, 30, 40, 50}
    /\ \E t \in 1..Len(tabs) : <<Digits[tabs[t].id + 1]>> = sent.args.id
\* the rows of ratings for the pair of the request answered
PairRows ==
    {i \in 1..Len(ratings) :
        /\ <<Digits[ratings[i].tab_id + 1]>> = sent.args.id
        /\ ~ratings[i].user_ip.isNull
        /\ ratings[i].user_ip.text = sent.args.user_ip.text}
\* the rows of ratings for the tab of the request answered
TabRows == {i \in 1..Len(ratings) : <<Digits[ratings[i].tab_id + 1]>> = sent.args.id}

RECURSIVE Total(_)
Total(rows) ==
    IF rows = {} THEN 0
    ELSE LET i == CHOOSE i \in rows : TRUE IN ratings[i].rating + Total(rows \ {i})

\* t tenths is the mean of the ratings in rows, rounded to one decimal place
RoundedMean(t, rows) ==
    LET n == Cardinality(rows)
    IN  2 * t * n - n <= 2 * Total(rows) /\ 2 * Total(rows) < 2 * t * n + n

\* C1: table ratings never holds two rows with the same tab_id and the same
\* non-NULL user_ip.
C1_OneRatingPerClient ==
    \A i, j \in 1..Len(ratings) :
        (/\ ratings[i].tab_id = ratings[j].tab_id
         /\ ~ratings[i].user_ip.isNull
         /\ ratings[i].user_ip = ratings[j].user_ip) => i = j

\* two submissions for one pair raced, and the store refused the second row
C1_Witness ==
    /\ RatedPair /\ sent.res.error = UniqueError
    /\ Cardinality(PairRows) = 1

\* C2: of two submissions for the same pair that race, one succeeds and the
\* other ends with the duplicate-rating outcome.  For the request answered:
\* when another request inserted a row for its pair after it arrived, it is
\* answered 400 "already rated"; when no other request has a row for its
\* pair, it succeeds.  (A store I/O error aside.)
C2_RaceOneSuccessOneDuplicate ==
    (RatedPair /\ RatedValid /\ sent.res.error # IOError) =>
        LET others == {i \in PairRows : ratings[i].id # sent.lastID}
        IN  /\ (\E i \in others : i > sent.seen) =>
                  sent.res.status = 400 /\ sent.res.error = AlreadyRated
            /\ others = {} => sent.res.status = 200

\* C3: a submission that arrives when a row for its pair exists is answered
\* 400 "already rated" and inserts nothing, and the step that rejects it
\* leaves table ratings as it was; a submission for a pair that has no row of
\* another request succeeds, and the aggregate it reports covers every row
\* of the tab.
C3_StateAnswered ==
    (RatedPair /\ RatedValid /\ sent.res.error # IOError) =>
        /\ (\E i \in PairRows : i <= sent.seen) =>
              /\ sent.res.status = 400 /\ sent.res.error = AlreadyRated
              /\ sent.lastID = 0
              /\ Cardinality(PairRows) = 1
        /\ (\A i \in PairRows : ratings[i].id = sent.lastID) =>
              /\ sent.res.status = 200
              /\ \E i \in PairRows : ratings[i].rating = sent.args.rating.num
              /\ sent.res.votes = Cardinality(TabRows)
              /\ RoundedMean(sent.res.new_rating, TabRows)

C3_DuplicateRejected ==
    /\ []C3_StateAnswered
    /\ [][sent'.res.error = AlreadyRated => ratings' = ratings]_vars

\* a duplicate was rejected after a rating with another key had been accepted
C3_Witness ==
    /\ RatedPair /\ sent.res.error = AlreadyRated
    /\ \E i \in PairRows : i <= sent.seen
    /\ Cardinality(TabRows) = 2

\* the latest step answered a read: GET /api/tabs/:id or GET /api/tabs
ReadAnswered == sent.op \in {"get", "list"} /\ sent.res.status = 200
RowsOfTab(id) == {i \in 1..Len(ratings) : ratings[i].tab_id = id}

\* C4: after N >= 1 ratings from 1 to 5 without a key, a read of the tab
\* reports N votes and the mean of the ratings rounded to one decimal place.
C4_ReadRoundedMean ==
    ReadAnswered =>
        \A k \in 1..Len(sent.res.rows) :
            LET row == sent.res.rows[k]
                rows == RowsOfTab(row.id)
            IN  (/\ rows # {}
                 /\ \A i \in rows : /\ ratings[i].user_ip.isNull
                                    /\ ratings[i].rating \in {10, 20, 30, 40, 50}) =>
                    /\ row.votes = Cardinality(rows)
                    /\ \E t \in 10..50 : /\ RoundedMean(t, rows)
                                         /\ 10 * row.rating.num = t * row.rating.den

\* C5: a read reports rating 0 (not NULL) and 0 votes for a tab without
\* ratings; the list without a search term holds every such tab, and the
\* single read answers with the tab asked for.
C5_NoRatingsZero ==
    ReadAnswered =>
        /\ \A k \in 1..Len(sent.res.rows) :
               RowsOfTab(sent.res.rows[k].id) = {} =>
                   /\ ~sent.res.rows[k].rating.isNull
                   /\ sent.res.rows[k].rating.num = 0
                   /\ sent.res.rows[k].votes = 0
        /\ (sent.op = "list" /\ sent.args.search.kind = "undefined") =>
               \A t \in 1..Len(tabs) :
                   RowsOfTab(tabs[t].id) = {} =>
                       \E k \in 1..Len(sent.res.rows) : sent.res.rows[k].id = tabs[t].id
        /\ sent.op = "get" =>
               Len(sent.res.rows) = 1 /\ <<Digits[sent.res.rows[1].id + 1]>> = sent.args.id

\* a list was answered with a rated tab and with tabs without ratings
C5_Witness ==
    /\ sent.op = "list" /\ sent.res.status = 200
    /\ \E k \in 1..Len(sent.res.rows) : sent.res.rows[k].votes = 0
    /\ \E k \in 1..Len(sent.res.rows) : sent.res.rows[k].votes > 0

\* C6: every row of ratings holds an integer from 1 to 5.
C6_RatingsAreIntegers ==
    \A i \in 1..Len(ratings) : ratings[i].rating \in {10, 20, 30, 40, 50}

\* C7: a submission with rating 0 or 6 is answered 400 "rating must be
\* between 1 and 5", and the step that answers it leaves table ratings as it was.
RatedOutOfRange(r) ==
    r.op = "rate" /\ r.args.rating.kind = "number" /\ r.args.rating.num \in {0, 60}

C7_StateAnswered ==
    RatedOutOfRange(sent) =>
        /\ sent.res.status = 400 /\ sent.res.error = RatingOutOfRange
        /\ sent.lastID = 0

C7_OutOfRangeRejected ==
    /\ []C7_StateAnswered
    /\ [][RatedOutOfRange(sent') => ratings' = ratings]_vars

\* rating 6 was rejected with ratings in the store
C7_Witness ==
    /\ RatedOutOfRange(sent) /\ sent.args.rating.num = 60 /\ sent.res.status = 400
    /\ Len(ratings) > 0

\* C8: a submission with a rating in range for a tab that does not exist is
\* answered 404 and inserts nothing, and every row of ratings has the tab_id
\* of a row of tabs.
C8_NotFoundNoRow ==
    /\ \A i \in 1..Len(ratings) : \E t \in 1..Len(tabs) : tabs[t].id = ratings[i].tab_id
    /\ (/\ sent.op = "rate"
        /\ sent.args.rating.kind = "number"
        /\ sent.args.rating.num >= 10 /\ sent.args.rating.num <= 50
        /\ ~\E t \in 1..Len(tabs) : <<Digits[tabs[t].id + 1]>> = sent.args.id
        /\ sent.res.error # IOError) =>
            /\ sent.res.status = 404 /\ sent.res.error = TabNotFound
            /\ sent.lastID = 0

\* a rating of a tab that does not exist was answered 404
C8_Witness ==
    /\ sent.op = "rate" /\ sent.res.status = 404 /\ sent.args.id = <<"9">>
    /\ sent.args.rating.num = 50

\* the fields of a created tab, as the request gave them
Missing(v) == v.kind = "undefined" \/ (v.kind = "string" /\ v.text = <<>>)
CreateMissing(r) ==
    r.op = "create" /\ (Missing(r.args.title) \/ Missing(r.args.artist) \/ Missing(r.args.content))

\* C9: a created tab is stored with the title, artist and content of the
\* request under an id above every other id; ids ascend in insertion order;
\* a read by id returns the fields of the row with that id; and no row of
\* tabs ever changes or goes away.
C9_StateAnswered ==
    /\ \A i, j \in 1..Len(tabs) : i < j => tabs[i].id < tabs[j].id
    /\ (sent.op = "create" /\ sent.res.status = 200) =>
           \E t \in 1..Len(tabs) :
               /\ tabs[t].id = sent.res.id
               /\ tabs[t].title = sent.args.title.text
               /\ tabs[t].artist = sent.args.artist.text
               /\ tabs[t].content = sent.args.content.text
               /\ \A u \in 1..Len(tabs) : u # t => tabs[u].id < sent.res.id
    /\ (sent.op = "get" /\ sent.res.status = 200) =>
           /\ Len(sent.res.rows) = 1
           /\ \E t \in 1..Len(tabs) :
                  /\ <<Digits[tabs[t].id + 1]>> = sent.args.id
                  /\ sent.res.rows[1].id = tabs[t].id
                  /\ sent.res.rows[1].title = tabs[t].title
                  /\ sent.res.rows[1].artist = tabs[t].artist
                  /\ sent.res.rows[1].content = tabs[t].content

C9_CreateThenGet ==
    /\ []C9_StateAnswered
    /\ [][/\ Len(tabs') >= Len(tabs)
          /\ \A i \in 1..Len(tabs) : tabs'[i] = tabs[i]]_vars

\* the second tab created was read back
C9_Witness ==
    /\ sent.op = "get" /\ sent.res.status = 200 /\ sent.args.id = <<"5">>
    /\ sent.res.rows[1].artist = <<"A">>
    /\ tabs[4].title # tabs[5].title

\* C10: a creation with an empty or absent title, artist or content is
\* answered 400 "all fields are required", and the step that answers it
\* leaves table tabs as it was.
C10_StateAnswered ==
    CreateMissing(sent) =>
        /\ sent.res.status = 400 /\ sent.res.error = AllFieldsRequired
        /\ sent.lastID = 0

C10_MissingFieldRejected ==
    /\ []C10_StateAnswered
    /\ [][CreateMissing(sent') => tabs' = tabs /\ sqlite_sequence' = sqlite_sequence]_vars

\* a creation with only its content empty was rejected after a tab was created
C10_Witness ==
    /\ CreateMissing(sent) /\ sent.res.status = 400
    /\ ~Missing(sent.args.title) /\ ~Missing(sent.args.artist)
    /\ Len(tabs) > Len(initialTabs)

\* The kind of error a response reports, by the branch that wrote it:
\* ValidationError (src/server.js:139-141, 164-166), NotFound (src/server.js:
\* 119-121, 176-178), DuplicateRatingError (the pre-check of src/server.js:
\* 191-193 and the UNIQUE constraint through src/server.js:209-211), and
\* StorageError for every other err.
IsError(r) == r.op # "none" /\ r.res.status # 200
ErrorKind(r) ==
    IF r.res.error \in {AllFieldsRequired, RatingOutOfRange} THEN "ValidationError"
    ELSE IF r.res.error = TabNotFound THEN "NotFound"
    ELSE IF r.res.error \in {AlreadyRated, UniqueError} THEN "DuplicateRatingError"
    ELSE "StorageError"

\* C11: the four kinds of error are pairwise distinct outcomes: two responses
\* that report errors of different kinds carry different status codes
\* (stated of every two responses that follow one another).
C11_ErrorKindsDistinct ==
    [][(IsError(sent) /\ IsError(sent') /\ ErrorKind(sent) # ErrorKind(sent'))
          => sent.res.status # sent'.res.status]_vars

\* a creation or a rating answered with a storage error
StorageErrorAnswered ==
    sent.op \in {"create", "rate"} /\ sent.res.status = 500 /\ sent.res.error = IOError

\* C12: a creation or a rating that ends in a storage error has no partial
\* effect: the request stored no row, also when it is the re-read of the
\* aggregate after the insert that failed.
C12_StorageErrorNoEffect ==
    StorageErrorAnswered =>
        /\ sent.lastID = 0
        /\ sent.op = "rate" => \A i \in 1..Len(ratings) : ratings[i].id # sent.lastID

ListAnswered == sent.op = "list" /\ sent.res.status = 200

\* C13: a list is ordered most recently created first: a tab with a larger id
\* comes before every tab with a smaller id, also when both were created
\* within the same second.
C13_NewestFirst ==
    ListAnswered =>
        \A k, l \in 1..Len(sent.res.rows) :
            k < l => sent.res.rows[k].id > sent.res.rows[l].id

\* text s contains text t, letters compared without their case
Contains(s, t) ==
    \E i \in 0..(Len(s) - Len(t)) :
        \A j \in 1..Len(t) : Fold(s[i + j]) = Fold(t[j])

\* C14: a list with a search term holds exactly the tabs whose title or artist
\* contains the term as a substring, case-insensitively, for every term,
\* "%" and "_" included; a list without a term holds every tab.
C14_SearchIsSubstring ==
    ListAnswered =>
        {sent.res.rows[k].id : k \in 1..Len(sent.res.rows)}
            = {tabs[i].id : i \in {j \in 1..Len(tabs) :
                   Truthy(sent.args.search) =>
                       \/ Contains(tabs[j].title, sent.args.search.text)
                       \/ Contains(tabs[j].artist, sent.args.search.text)}}

\* a rating without a client key (absent or empty) of a tab that exists, with
\* a valid value, answered otherwise than by a failure of the store's I/O
AnonymousAnswered ==
    /\ sent.op = "rate" /\ ~Truthy(sent.args.user_ip)
    /\ ~InvalidRating(sent.args.rating)
    /\ \E i \in 1..Len(tabs) : <<Digits[tabs[i].id + 1]>> = sent.args.id
    /\ sent.res.error # IOError

C15_StateAnswered ==
    AnonymousAnswered =>
        /\ sent.res.status = 200
        /\ \E i \in TabRows : /\ ratings[i].id = sent.lastID
                              /\ ratings[i].user_ip = NULL
                              /\ ratings[i].rating = sent.args.rating.num
        /\ sent.res.votes = Cardinality(TabRows)

\* C15: a rating without a client key is never refused as a duplicate: it
\* succeeds whatever rows the tab already has, its row is stored with a NULL
\* key, and the step that stores it adds exactly one row to the tab's votes.
C15_AnonymousNeverDeduplicated ==
    /\ []C15_StateAnswered
    /\ [][\A r0 \in BagToSet(req) :
            (/\ r0.pc = "insertRating" /\ ~Truthy(r0.args.user_ip)
             /\ ratings' # ratings)
                => /\ Len(ratings') = Len(ratings) + 1
                   /\ SubSeq(ratings', 1, Len(ratings)) = ratings]_vars

\* an anonymous rating succeeded on a tab that already had two anonymous
\* ratings, one of them of the same value
C15_Witness ==
    /\ AnonymousAnswered /\ sent.res.status = 200 /\ sent.res.votes = 3
    /\ \A i \in TabRows : ratings[i].user_ip = NULL
    /\ \E i \in TabRows : ratings[i].id # sent.lastID /\ ratings[i].rating = sent.args.rating.num
    /\ sent.args.user_ip = JsString(<<>>)

\* the rows of table ratings of tab id stored when the answered request arrived
RowsSeen(id) == {i \in RowsOfTab(id) : i <= sent.seen}

\* C16: a read reports, for each tab, votes and an average that include
\* every rating stored before the read started (so every rating whose
\* submission had returned success by then): votes is at least the number of
\* those ratings, and votes and average are the count and the mean of the
\* stored ratings of the tab at the time the read executes.
C16_ReadIncludesAcknowledged ==
    ReadAnswered =>
        \A k \in 1..Len(sent.res.rows) :
            LET row == sent.res.rows[k]
                rows == RowsOfTab(row.id)
            IN  /\ row.votes >= Cardinality(RowsSeen(row.id))
                /\ row.votes = Cardinality(rows)
                /\ rows # {} => row.rating.num * 10 * Cardinality(rows)
                                    = Total(rows) * row.rating.den

\* a read that started after two ratings were stored, and executed after a
\* third one was, was answered
C16_Witness ==
    /\ ReadAnswered /\ sent.seen = 2 /\ Len(ratings) = 3
    /\ \E k \in 1..Len(sent.res.rows) : sent.res.rows[k].votes = 3

\* s2 is s1, or s1 with one row appended
Appended(s1, s2) ==
    /\ Len(s2) \in {Len(s1), Len(s1) + 1}
    /\ SubSeq(s2, 1, Len(s1)) = s1

\* the step is the callback of the INSERT of a request in flight
InsertStep(pc) ==
    \E r0 \in BagToSet(req) :
        /\ r0.pc = pc
        /\ CopiesIn(r0, req') = CopiesIn(r0, req) - 1

\* C17: the store is append-only and reads are pure: no step modifies or
\* removes a row of tabs or ratings; only the INSERT of a creation adds a row
\* to tabs and only the INSERT of a rating adds one to ratings; the steps of
\* getTab and listTabs, and every creation and rating that is rejected (400,
\* 404, or by the UNIQUE constraint), leave both tables as they were.
C17_AppendOnlyReadsPure ==
    [][/\ Appended(tabs, tabs') /\ Appended(ratings, ratings')
       /\ tabs' # tabs => InsertStep("run") /\ sent'.op = "create" /\ sent'.res.status = 200
       /\ ratings' # ratings => InsertStep("insertRating") /\ sent' = NoReq
       /\ (sent'.op \in {"get", "list"}
           \/ sent'.res.status \in {400, 404}
           \/ sent'.res.error = UniqueError)
              => tabs' = tabs /\ ratings' = ratings /\ sent'.lastID = 0]_vars

\* a rating was refused by the UNIQUE constraint, with a created tab and a
\* rating in the store
C17_Witness ==
    /\ sent.op = "rate" /\ sent.res.error = UniqueError
    /\ Len(tabs) > Len(initialTabs) /\ Len(ratings) = 1

\* a rating answered with success
RatedSuccess == sent.op = "rate" /\ sent.res.status = 200

\* C19: the aggregate in the response of a successful rating includes the
\* rating it stored: votes is at least 1 and at least the number of ratings
\* the tab had right after this request's insert, also when another
\* submission is stored between the insert and the re-read.
C19_ResponseIncludesOwnRating ==
    RatedSuccess =>
        /\ sent.res.votes >= 1
        /\ \E i \in TabRows : ratings[i].id = sent.lastID
        /\ sent.res.votes >= Cardinality({i \in TabRows : ratings[i].id <= sent.lastID})
        /\ sent.res.votes = Cardinality(TabRows)

\* a rating succeeded whose re-read ran after a later submission was stored
C19_Witness ==
    /\ RatedSuccess
    /\ \E i, j \in TabRows : ratings[i].id = sent.lastID /\ ratings[j].id > sent.lastID
    /\ sent.res.votes = 2

\* a step sends at most one response, and the request it answers leaves the
\* requests in flight, or never joined them (rejected by validation on
\* arrival): its handler takes no further step
OneResponse ==
    IF sent' = NoReq
    THEN BagCardinality(req') = BagCardinality(req)
    ELSE /\ sent'.pc = "done" /\ sent'.res.status \in {200, 400, 404, 500}
         /\ \/ /\ BagCardinality(req') = BagCardinality(req) - 1
               /\ \E r0 \in BagToSet(req) :
                      /\ r0.op = sent'.op /\ r0.args = sent'.args
                      /\ CopiesIn(r0, req') = CopiesIn(r0, req) - 1
            \/ /\ req' = req
               /\ sent'.res.error \in {AllFieldsRequired, RatingOutOfRange}

====
